---- MODULE Spec2Model ----
(***************************************************************************)
(* Proof-of-stake kernel of DeepOnion (src/src/pos.cpp): stake modifier    *)
(* computation, candidate selection, kernel modifier lookup and the        *)
(* coinstake checks.                                                       *)
(*                                                                         *)
(* The block index is the sequence `chain`: chain[i] is the entry of       *)
(* height i-1, its pprev is chain[i-1] (nil for i = 1), its pnext is       *)
(* chain[i+1] (nil at the tip) and its block hash is i.                    *)
(***************************************************************************)
EXTENDS Integers, Sequences, FiniteSets, TLC

VARIABLES chain,      \* the block index along the active chain
          lastCompute,\* arguments and results of the last ComputeNextStakeModifier
          sel,        \* arguments and results of a direct SelectBlockFromCandidates call
          kernel      \* arguments and results of the last kernel / coinstake check

vars == <<chain, lastCompute, sel, kernel>>

----------------------------------------------------------------------------
(* Bounds of the model                                                     *)

MaxChain == 4        \* blocks accepted in the chain specification
MaxCand == 3         \* candidates handed to a direct SelectBlockFromCandidates call
MaxKernelChain == 5  \* blocks of the block index in the kernel specification

----------------------------------------------------------------------------
(* Integers wider than the model checker's: the pair <<q, r>> with         *)
(* 0 <= r < Base stands for q * Base + r.  q may be negative, so the pairs *)
(* cover the int64_t range the code computes in; the unsigned 32-bit       *)
(* values are the pairs with 0 <= q < Base.                                *)

Base == 65536

W(n) == <<n \div Base, n % Base>>

WNorm(q, r) == <<q + (r \div Base), r % Base>>

WAdd(a, b) == WNorm(a[1] + b[1], a[2] + b[2])

WSub(a, b) == WNorm(a[1] - b[1], a[2] - b[2])

WLess(a, b) == a[1] < b[1] \/ (a[1] = b[1] /\ a[2] < b[2])

WLeq(a, b) == ~WLess(b, a)

WMin(a, b) == IF WLess(b, a) THEN b ELSE a

WNeg(a) == a[1] < 0

\* a / d and a % d for a >= 0 and a divisor 0 < d < Base
WDiv(a, d) == a[1] * (Base \div d) + ((a[1] * (Base % d) + a[2]) \div d)

WMod(a, d) == (a[1] * (Base % d) + a[2]) % d

\* conversion to unsigned int: reduction modulo 2^32
U32(a) == <<a[1] % Base, a[2]>>

U32Max == <<Base - 1, Base - 1>>

----------------------------------------------------------------------------
(* A local variable of the code: the value e is computed once and then     *)
(* read by F.                                                              *)

Local(e, F(_)) == CHOOSE y \in {F(x) : x \in {e}} : TRUE

----------------------------------------------------------------------------
(* Parameters                                                              *)

nStakeMinAge == 86400

nStakeMaxAge == 2592000

nModifierInterval == 480

MODIFIER_INTERVAL_RATIO == 3

NumRounds == 64

----------------------------------------------------------------------------
(* Time weight                                                             *)

GetWeight(nIntervalBeginning, nIntervalEnd) ==
    WMin(WSub(WSub(nIntervalEnd, nIntervalBeginning), W(nStakeMinAge)),
         W(nStakeMaxAge))

----------------------------------------------------------------------------
(* Block index access                                                      *)

NoBlock == 0

Pprev(i) == i - 1

Pnext(idx, i) == IF i < Len(idx) THEN i + 1 ELSE NoBlock

Height(i) == i - 1

\* the 256-bit unsigned values are modelled by their two lowest 32-bit
\* limbs <<hi, lo>>, the six upper limbs being zero
HashDigits == 3

Hash(hashProof, nStakeModifierPrev) ==
    LET v == (5 * hashProof + 7 * nStakeModifierPrev + 4) % (HashDigits * HashDigits)
    IN  <<v \div HashDigits, v % HashDigits>>

Shr32(h) == <<0, h[1]>>

HashLess(a, b) == a[1] < b[1] \/ (a[1] = b[1] /\ a[2] < b[2])

----------------------------------------------------------------------------
(* GetLastStakeModifier                                                    *)

RECURSIVE LastGenerated(_, _)
LastGenerated(idx, i) ==
    IF Pprev(i) # NoBlock /\ ~idx[i].fGenerated
    THEN LastGenerated(idx, Pprev(i))
    ELSE i

GetLastStakeModifier(idx, pindex) ==
    IF pindex = NoBlock
    THEN [ok |-> FALSE, nStakeModifier |-> 0, nModifierTime |-> W(0)]
    ELSE LET p == LastGenerated(idx, pindex)
         IN  IF ~idx[p].fGenerated
             THEN [ok |-> FALSE, nStakeModifier |-> 0, nModifierTime |-> W(0)]
             ELSE [ok |-> TRUE,
                   nStakeModifier |-> idx[p].nStakeModifier,
                   nModifierTime |-> idx[p].nTime]

----------------------------------------------------------------------------
(* Selection interval                                                      *)

GetStakeModifierSelectionIntervalSection(nSection) ==
    (nModifierInterval * 63)
        \div (63 + ((63 - nSection) * (MODIFIER_INTERVAL_RATIO - 1)))

RECURSIVE SumSections(_)
SumSections(n) ==
    IF n = 0 THEN 0
    ELSE SumSections(n - 1) + GetStakeModifierSelectionIntervalSection(n - 1)

GetStakeModifierSelectionInterval == SumSections(NumRounds)

----------------------------------------------------------------------------
(* SelectBlockFromCandidates                                               *)
(* vSortedByTimestamp is a sequence of pairs <<time, block hash>>, idx the *)
(* block index (mapBlockIndex), mapSelectedBlocks the set of hashes        *)
(* already selected.  `evaluated` lists the hashes whose selection hash    *)
(* was computed, in the order of evaluation.                               *)

\* variant: the selection hash of a proof-of-stake block is not shifted
SelectionHash_NoShift(b, hashBlock, nStakeModifierPrev) ==
    Hash(IF b.fPoS THEN b.hashProofOfStake ELSE hashBlock, nStakeModifierPrev)

SelectionHash(b, hashBlock, nStakeModifierPrev) ==
    LET hashProof == IF b.fPoS THEN b.hashProofOfStake ELSE hashBlock
        hashSelection == Hash(hashProof, nStakeModifierPrev)
    IN  IF b.fPoS THEN Shr32(hashSelection) ELSE hashSelection

\* variant: the comparison with the stop time reversed
BreakOnStop_Reversed(fSelected, nTime, nSelectionIntervalStop) ==
    fSelected /\ WLess(nTime, nSelectionIntervalStop)

BreakOnStop(fSelected, nTime, nSelectionIntervalStop) ==
    fSelected /\ WLess(nSelectionIntervalStop, nTime)

BetterHash(fSelected, hashSelection, hashBest) ==
    fSelected /\ HashLess(hashSelection, hashBest)

\* variant: a candidate already in mapSelectedBlocks is not skipped
SelectStep_NoSkip(pindex, hashBlock, mapSelectedBlocks, nSelectionIntervalStop, nStakeModifierPrev, st) ==
    LET hashSelection == SelectionHash(pindex, hashBlock, nStakeModifierPrev)
    IN
    IF BreakOnStop(st.fSelected, pindex.nTime, nSelectionIntervalStop)
    THEN [st EXCEPT !.stop = TRUE]
    ELSE IF BetterHash(st.fSelected, hashSelection, st.hashBest)
    THEN [st EXCEPT !.hashBest = hashSelection,
                    !.pindexSelected = hashBlock,
                    !.evaluated = Append(@, hashBlock)]
    ELSE IF ~st.fSelected
    THEN [st EXCEPT !.fSelected = TRUE,
                    !.hashBest = hashSelection,
                    !.pindexSelected = hashBlock,
                    !.evaluated = Append(@, hashBlock)]
    ELSE [st EXCEPT !.evaluated = Append(@, hashBlock)]

\* one iteration of the loop over the candidates; `stop` tells that the
\* loop was left at this candidate
SelectStep(pindex, hashBlock, mapSelectedBlocks, nSelectionIntervalStop, nStakeModifierPrev, st) ==
    LET hashSelection == SelectionHash(pindex, hashBlock, nStakeModifierPrev)
    IN
    IF BreakOnStop(st.fSelected, pindex.nTime, nSelectionIntervalStop)
    THEN [st EXCEPT !.stop = TRUE]
    ELSE IF hashBlock \in mapSelectedBlocks
    THEN st
    ELSE IF BetterHash(st.fSelected, hashSelection, st.hashBest)
    THEN [st EXCEPT !.hashBest = hashSelection,
                    !.pindexSelected = hashBlock,
                    !.evaluated = Append(@, hashBlock)]
    ELSE IF ~st.fSelected
    THEN [st EXCEPT !.fSelected = TRUE,
                    !.hashBest = hashSelection,
                    !.pindexSelected = hashBlock,
                    !.evaluated = Append(@, hashBlock)]
    ELSE [st EXCEPT !.evaluated = Append(@, hashBlock)]

RECURSIVE SelectLoop(_, _, _, _, _, _, _)
SelectLoop(vSortedByTimestamp, idx, mapSelectedBlocks, nSelectionIntervalStop, nStakeModifierPrev, i, st) ==
    IF i > Len(vSortedByTimestamp) THEN st
    ELSE
      LET hashBlock == vSortedByTimestamp[i][2]
      IN
      IF hashBlock \notin DOMAIN idx
      THEN [st EXCEPT !.err = TRUE]
      ELSE Local(SelectStep(idx[hashBlock], hashBlock, mapSelectedBlocks,
                            nSelectionIntervalStop, nStakeModifierPrev, st),
                 LAMBDA s :
                   IF s.stop THEN s
                   ELSE SelectLoop(vSortedByTimestamp, idx, mapSelectedBlocks,
                                   nSelectionIntervalStop, nStakeModifierPrev,
                                   i + 1, s))

SelectBlockFromCandidates(vSortedByTimestamp, idx, mapSelectedBlocks, nSelectionIntervalStop, nStakeModifierPrev) ==
    LET st == SelectLoop(vSortedByTimestamp, idx, mapSelectedBlocks,
                         nSelectionIntervalStop, nStakeModifierPrev, 1,
                         [fSelected |-> FALSE, hashBest |-> <<0, 0>>,
                          pindexSelected |-> NoBlock, evaluated |-> <<>>,
                          err |-> FALSE, stop |-> FALSE])
    IN  [ok |-> st.fSelected /\ ~st.err,
         pindexSelected |-> st.pindexSelected,
         evaluated |-> st.evaluated]

----------------------------------------------------------------------------
(* ComputeNextStakeModifier                                                *)

\* variant: strict comparison of the interval numbers
SameInterval_Strict(nModifierTime, nTimePrev) ==
    WDiv(nModifierTime, nModifierInterval) > WDiv(nTimePrev, nModifierInterval)

SameInterval(nModifierTime, nTimePrev) ==
    WDiv(nModifierTime, nModifierInterval) >= WDiv(nTimePrev, nModifierInterval)

SelectionIntervalStart(nTimePrev) ==
    WSub(WSub(nTimePrev, W(WMod(nTimePrev, nModifierInterval))),
         W(GetStakeModifierSelectionInterval))

\* the walk back from pindexPrev: pairs <<time, hash>>, newest first
RECURSIVE CollectCandidates(_, _, _)
CollectCandidates(idx, pindex, nSelectionIntervalStart) ==
    IF pindex # NoBlock /\ WLeq(nSelectionIntervalStart, idx[pindex].nTime)
    THEN <<<<idx[pindex].nTime, pindex>>>>
            \o CollectCandidates(idx, Pprev(pindex), nSelectionIntervalStart)
    ELSE <<>>

Reverse(s) == [i \in 1..Len(s) |-> s[Len(s) + 1 - i]]

RemoveAt(s, i) == SubSeq(s, 1, i - 1) \o SubSeq(s, i + 1, Len(s))

\* std::sort with a comparator on the timestamp alone: every arrangement
\* in ascending time is a possible result, the order of elements with equal
\* timestamps being unspecified
RECURSIVE SortOutcomes(_)
SortOutcomes(v) ==
    IF Len(v) = 0 THEN {<<>>}
    ELSE LET heads == {i \in 1..Len(v) :
                         \A j \in 1..Len(v) : ~WLess(v[j][1], v[i][1])}
         IN  UNION {UNION {{<<v[i]>> \o t : t \in SortOutcomes(rest)} :
                             rest \in {RemoveAt(v, i)}} : i \in heads}

Candidates(idx, pindexPrev) ==
    Reverse(CollectCandidates(idx, pindexPrev,
                              SelectionIntervalStart(idx[pindexPrev].nTime)))

Min(a, b) == IF a < b THEN a ELSE b

RECURSIVE Pow2(_)
Pow2(n) == IF n = 0 THEN 1 ELSE 2 * Pow2(n - 1)

RECURSIVE RoundLoop(_, _, _, _, _, _, _)
RoundLoop(idx, vSortedByTimestamp, nStakeModifier, nRound, nSelectionIntervalStop, mapSelectedBlocks, acc) ==
    IF nRound >= Min(NumRounds, Len(vSortedByTimestamp)) THEN acc
    ELSE
      Local(WAdd(nSelectionIntervalStop,
                 W(GetStakeModifierSelectionIntervalSection(nRound))),
        LAMBDA stop :
          Local(SelectBlockFromCandidates(vSortedByTimestamp, idx,
                                          mapSelectedBlocks, stop, nStakeModifier),
            LAMBDA r :
              IF ~r.ok
              THEN [acc EXCEPT !.ok = FALSE]
              ELSE Local([selected |-> mapSelectedBlocks \cup {r.pindexSelected},
                          acc |-> [acc EXCEPT
                                     !.nStakeModifierNew =
                                         @ + idx[r.pindexSelected].entropyBit
                                               * Pow2(nRound),
                                     !.picks = Append(@, r.pindexSelected)]],
                     LAMBDA n :
                       RoundLoop(idx, vSortedByTimestamp, nStakeModifier,
                                 nRound + 1, stop, n.selected, n.acc))))

\* the selection rounds over a sorted candidate list
SelectRounds(idx, pindexPrev, vSortedByTimestamp, nStakeModifier) ==
    RoundLoop(idx, vSortedByTimestamp, nStakeModifier, 0,
              SelectionIntervalStart(idx[pindexPrev].nTime), {},
              [ok |-> TRUE, nStakeModifierNew |-> 0, picks |-> <<>>])

\* variant: the modifier found by GetLastStakeModifier is dropped when the
\* interval has not changed
ComputeNextStakeModifier_DropsModifier(idx, pindexPrev, vSortedByTimestamp) ==
    IF pindexPrev = NoBlock
    THEN [ok |-> TRUE, nStakeModifier |-> 0, fGeneratedStakeModifier |-> TRUE,
          picks |-> <<>>]
    ELSE
      LET last == GetLastStakeModifier(idx, pindexPrev)
      IN
      IF ~last.ok
      THEN [ok |-> FALSE, nStakeModifier |-> 0,
            fGeneratedStakeModifier |-> FALSE, picks |-> <<>>]
      ELSE IF SameInterval(last.nModifierTime, idx[pindexPrev].nTime)
      THEN [ok |-> TRUE, nStakeModifier |-> 0,
            fGeneratedStakeModifier |-> FALSE, picks |-> <<>>]
      ELSE
        LET r == SelectRounds(idx, pindexPrev, vSortedByTimestamp,
                              last.nStakeModifier)
        IN  IF ~r.ok
            THEN [ok |-> FALSE, nStakeModifier |-> last.nStakeModifier,
                  fGeneratedStakeModifier |-> FALSE, picks |-> r.picks]
            ELSE [ok |-> TRUE, nStakeModifier |-> r.nStakeModifierNew,
                  fGeneratedStakeModifier |-> TRUE, picks |-> r.picks]

\* vSortedByTimestamp is the result std::sort left in the candidate vector
ComputeNextStakeModifier(idx, pindexPrev, vSortedByTimestamp) ==
    IF pindexPrev = NoBlock
    THEN [ok |-> TRUE, nStakeModifier |-> 0, fGeneratedStakeModifier |-> TRUE,
          picks |-> <<>>]
    ELSE
      LET last == GetLastStakeModifier(idx, pindexPrev)
      IN
      IF ~last.ok
      THEN [ok |-> FALSE, nStakeModifier |-> 0,
            fGeneratedStakeModifier |-> FALSE, picks |-> <<>>]
      ELSE IF SameInterval(last.nModifierTime, idx[pindexPrev].nTime)
      THEN [ok |-> TRUE, nStakeModifier |-> last.nStakeModifier,
            fGeneratedStakeModifier |-> FALSE, picks |-> <<>>]
      ELSE
        LET r == SelectRounds(idx, pindexPrev, vSortedByTimestamp,
                              last.nStakeModifier)
        IN  IF ~r.ok
            THEN [ok |-> FALSE, nStakeModifier |-> last.nStakeModifier,
                  fGeneratedStakeModifier |-> FALSE, picks |-> r.picks]
            ELSE [ok |-> TRUE, nStakeModifier |-> r.nStakeModifierNew,
                  fGeneratedStakeModifier |-> TRUE, picks |-> r.picks]

----------------------------------------------------------------------------
(* Connecting blocks: the chain store calls ComputeNextStakeModifier on    *)
(* the tip and writes the result into the new entry.                       *)

BlockTimes == {W(100), W(500), W(17300)}

ProofValues == {2}

NoCall == [op |-> "none"]

NewEntry(nTime, entropyBit, fPoS, hashProofOfStake, r) ==
    [nTime |-> nTime, entropyBit |-> entropyBit, fPoS |-> fPoS,
     hashProofOfStake |-> hashProofOfStake,
     nStakeModifier |-> r.nStakeModifier,
     fGenerated |-> r.fGeneratedStakeModifier]

Connect(idx, nTime, entropyBit, fPoS, hashProofOfStake, vSortedByTimestamp) ==
    LET r == ComputeNextStakeModifier(idx, Len(idx), vSortedByTimestamp)
    IN  [idx |-> IF r.ok
                 THEN Append(idx, NewEntry(nTime, entropyBit, fPoS, hashProofOfStake, r))
                 ELSE idx,
         call |-> [op |-> "compute", pindexPrev |-> Len(idx), ok |-> r.ok,
                   nStakeModifier |-> r.nStakeModifier,
                   fGeneratedStakeModifier |-> r.fGeneratedStakeModifier,
                   picks |-> r.picks]]

AcceptGenesis ==
    /\ chain = <<>>
    /\ \E nTime \in BlockTimes, entropyBit \in {0, 1} :
         LET c == Connect(chain, nTime, entropyBit, FALSE, 0, <<>>)
         IN  /\ chain' = c.idx
             /\ lastCompute' = c.call
    /\ UNCHANGED <<sel, kernel>>

AcceptBlock ==
    /\ chain # <<>>
    /\ Len(chain) < MaxChain
    /\ \E nTime \in BlockTimes, entropyBit \in {0, 1}, fPoS \in BOOLEAN,
          proof \in ProofValues,
          vSortedByTimestamp \in SortOutcomes(Candidates(chain, Len(chain))) :
         /\ (~fPoS => proof = 2)
         /\ LET c == Connect(chain, nTime, entropyBit, fPoS,
                             IF fPoS THEN proof ELSE 0, vSortedByTimestamp)
            IN  /\ chain' = c.idx
                /\ lastCompute' = c.call
    /\ UNCHANGED <<sel, kernel>>

Init ==
    /\ chain = <<>>
    /\ lastCompute = NoCall
    /\ sel = NoCall
    /\ kernel = NoCall

Next == AcceptGenesis \/ AcceptBlock

Spec == Init /\ [][Next]_vars

----------------------------------------------------------------------------
(* A direct call of SelectBlockFromCandidates on a block index of n        *)
(* entries (entry i has block hash i) listed in ascending time.            *)

SelectTimes == {W(100), W(200), W(300)}

SelectStops == {W(150), W(250)}

SelectProofs == {2}

SelectEntry(nTime, fPoS, hashProofOfStake) ==
    [nTime |-> nTime, entropyBit |-> 0, fPoS |-> fPoS,
     hashProofOfStake |-> hashProofOfStake,
     nStakeModifier |-> 0, fGenerated |-> FALSE]

SelectEntries ==
    {SelectEntry(t, FALSE, 0) : t \in SelectTimes}
        \cup {SelectEntry(t, TRUE, h) : t \in SelectTimes, h \in SelectProofs}

NonDecreasing(idx) == \A i \in 1..(Len(idx) - 1) : WLeq(idx[i].nTime, idx[i + 1].nTime)

ByTime(idx) == [i \in 1..Len(idx) |-> <<idx[i].nTime, i>>]

CallSelect ==
    /\ sel = NoCall
    /\ \E n \in 1..MaxCand :
        \E idx \in {x \in [1..n -> SelectEntries] : NonDecreasing(x)} :
        \E vSortedByTimestamp \in SortOutcomes(ByTime(idx)),
           mapSelectedBlocks \in SUBSET (1..n),
           nSelectionIntervalStop \in SelectStops,
           nStakeModifierPrev \in {0, 1} :
          LET r == SelectBlockFromCandidates(vSortedByTimestamp, idx,
                       mapSelectedBlocks, nSelectionIntervalStop,
                       nStakeModifierPrev)
          IN  sel' = [op |-> "select", idx |-> idx,
                      vSortedByTimestamp |-> vSortedByTimestamp,
                      mapSelectedBlocks |-> mapSelectedBlocks,
                      nSelectionIntervalStop |-> nSelectionIntervalStop,
                      nStakeModifierPrev |-> nStakeModifierPrev,
                      ok |-> r.ok, pindexSelected |-> r.pindexSelected,
                      evaluated |-> r.evaluated]
    /\ UNCHANGED <<chain, lastCompute, kernel>>

SpecSelect == Init /\ [][CallSelect]_vars

----------------------------------------------------------------------------
(* GetKernelStakeModifier                                                  *)

\* variant: the height and time are taken from every block walked over
TakesModifier_Always(b) == TRUE

\* whether the walk records the height and time of block b
TakesModifier(b) == b.fGenerated

RECURSIVE KernelWalk(_, _, _, _, _, _)
KernelWalk(idx, pindexFrom, pindex, nStakeModifierHeight, nStakeModifierTime, now) ==
    IF ~WLess(nStakeModifierTime,
              WAdd(idx[pindexFrom].nTime, W(GetStakeModifierSelectionInterval)))
    THEN [ok |-> TRUE, logged |-> FALSE, pindex |-> pindex,
          nStakeModifier |-> idx[pindex].nStakeModifier,
          nStakeModifierHeight |-> nStakeModifierHeight,
          nStakeModifierTime |-> nStakeModifierTime]
    ELSE IF Pnext(idx, pindex) = NoBlock
    THEN [ok |-> FALSE,
          logged |-> WLess(now, WSub(WAdd(idx[pindex].nTime, W(nStakeMinAge)),
                                     W(GetStakeModifierSelectionInterval))),
          pindex |-> pindex,
          nStakeModifier |-> 0,
          nStakeModifierHeight |-> nStakeModifierHeight,
          nStakeModifierTime |-> nStakeModifierTime]
    ELSE LET next == Pnext(idx, pindex)
         IN  IF TakesModifier(idx[next])
             THEN KernelWalk(idx, pindexFrom, next, Height(next), idx[next].nTime, now)
             ELSE KernelWalk(idx, pindexFrom, next, nStakeModifierHeight,
                             nStakeModifierTime, now)

GetKernelStakeModifier(idx, pindexFrom, now) ==
    KernelWalk(idx, pindexFrom, pindexFrom, Height(pindexFrom),
               idx[pindexFrom].nTime, now)

----------------------------------------------------------------------------
(* CheckStakeKernelHash                                                    *)
(* The value of the previous output is a whole number nCoins of COIN, the  *)
(* target per coin day and the kernel hash are small 256-bit values.       *)
(* `stage` names the return statement taken; `dos` is the level the        *)
(* function itself passed to state.DoS (0 when it did not call it).        *)

NoModifier ==
    [ok |-> FALSE, logged |-> FALSE, pindex |-> NoBlock, nStakeModifier |-> 0,
     nStakeModifierHeight |-> 0, nStakeModifierTime |-> W(0)]

\* arith_uint256(nValuePrev) * weight / COIN / (24 * 60 * 60) for
\* nValuePrev = nCoins * COIN: the 256-bit product does not overflow and the
\* division by COIN is exact.  A negative weight is converted to an unsigned
\* operand; the result is then the image of a negative number (wrapped).
CoinDayWeight(nCoins, weight) ==
    IF WNeg(weight)
    THEN [wrapped |-> TRUE, value |-> 0]
    ELSE [wrapped |-> FALSE,
          value |-> (nCoins * (weight[1] * Base + weight[2])) \div (24 * 60 * 60)]

\* UintToArith256(hashProofOfStake) > bnCoinDayWeight * bnTargetPerCoinDay
AboveTarget(hashProofOfStake, bnCoinDayWeight, bnTargetPerCoinDay) ==
    IF bnCoinDayWeight.wrapped
    THEN FALSE
    ELSE hashProofOfStake > bnCoinDayWeight.value * bnTargetPerCoinDay

MinAgeViolation(nTimeBlockFrom, nTimeTx) ==
    WLess(nTimeTx, U32(WAdd(nTimeBlockFrom, W(nStakeMinAge))))

CheckStakeKernelHash(idx, pBlockFrom, nTimeTxPrev, nTimeTx, nCoins, bnTargetPerCoinDay, hashProofOfStake, now) ==
    LET none == [entered |-> TRUE, nullDeref |-> FALSE, ret |-> FALSE, dos |-> 0,
                 stage |-> "", weight |-> W(0),
                 bnCoinDayWeight |-> [wrapped |-> FALSE, value |-> 0],
                 hashed |-> FALSE, modifier |-> NoModifier]
    IN
    IF WLess(nTimeTx, nTimeTxPrev)
    THEN [none EXCEPT !.dos = 100, !.stage = "nTime violation"]
    ELSE IF pBlockFrom = NoBlock
    THEN [none EXCEPT !.nullDeref = TRUE, !.stage = "null pBlockFrom"]
    ELSE IF MinAgeViolation(idx[pBlockFrom].nTime, nTimeTx)
    THEN [none EXCEPT !.dos = 100, !.stage = "min age violation"]
    ELSE
      LET weight == GetWeight(nTimeTxPrev, nTimeTx)
          cdw == CoinDayWeight(nCoins, weight)
          m == GetKernelStakeModifier(idx, pBlockFrom, now)
          past == [none EXCEPT !.weight = weight, !.bnCoinDayWeight = cdw,
                               !.modifier = m]
      IN  IF ~m.ok
          THEN [past EXCEPT !.stage = "no modifier"]
          ELSE IF AboveTarget(hashProofOfStake, cdw, bnTargetPerCoinDay)
          THEN [past EXCEPT !.hashed = TRUE, !.stage = "above target"]
          ELSE [past EXCEPT !.hashed = TRUE, !.ret = TRUE, !.stage = "accepted"]

----------------------------------------------------------------------------
(* CheckProofOfStake                                                       *)
(* env is what the lookup of the previous transaction yields;              *)
(* pBlockFrom is the entry found for the hash of its block header, NoBlock *)
(* when the hash is not in the block index; coinHeight is the height of    *)
(* the coin in the UTXO view, -1 when the view has no such coin.           *)

COINBASE_MATURITY == 2

NotEntered ==
    [entered |-> FALSE, nullDeref |-> FALSE, ret |-> FALSE, dos |-> 0,
     stage |-> "", weight |-> W(0),
     bnCoinDayWeight |-> [wrapped |-> FALSE, value |-> 0],
     hashed |-> FALSE, modifier |-> NoModifier]

GetAncestor(idx, pindex, height) ==
    IF height < 0 \/ height > Height(pindex) THEN NoBlock ELSE height + 1

CheckProofOfStake(idx, pindexPrev, env, pBlockFrom, coinHeight, nTimeTxPrev, nTimeTx, nCoins, bnTargetPerCoinDay, hashProofOfStake, now) ==
    LET reject(why) == [ret |-> FALSE, dos |-> 100, stage |-> why, k |-> NotEntered]
    IN
    IF env = "not coinstake" THEN reject("called on non-coinstake")
    ELSE IF env = "no tx index" THEN reject("ReadTxIndex failed")
    ELSE IF env = "file null" THEN reject("OpenBlockFile failed")
    ELSE IF env = "io error" THEN reject("Deserialize or I/O error")
    ELSE IF coinHeight < 0 THEN reject("Stake prevout does not exist")
    ELSE IF Height(pindexPrev) + 1 - coinHeight < COINBASE_MATURITY
    THEN reject("Stake prevout is not mature")
    ELSE IF GetAncestor(idx, pindexPrev, coinHeight) = NoBlock
    THEN reject("Block for prevout can not be loaded")
    ELSE
      LET k == CheckStakeKernelHash(idx, pBlockFrom, nTimeTxPrev, nTimeTx, nCoins,
                                    bnTargetPerCoinDay, hashProofOfStake, now)
      IN  IF ~k.ret
          THEN [ret |-> FALSE,
                dos |-> 100,
                stage |-> "check kernel failed", k |-> k]
          ELSE [ret |-> TRUE, dos |-> 0, stage |-> "ok", k |-> k]

----------------------------------------------------------------------------
(* Kernel checks against a block index loaded from the chain store         *)

KernelTimes == {W(500), W(17300), W(18000), U32Max}

TxTimes == {W(86399), W(86899), W(86900), W(2700000)}

ClockTimes == {W(0), W(2700000)}

CoinValues == {1, 500}

KernelHashes == {0, 10}

\* the block indexes of n entries with non-decreasing times, each entry
\* written by ComputeNextStakeModifier, the entropy bit of an entry being the
\* low bit of its block hash
RECURSIVE KernelIndexes(_)
KernelIndexes(n) ==
    IF n = 1
    THEN {Connect(<<>>, t, 1, FALSE, 0, <<>>).idx : t \in KernelTimes}
    ELSE UNION {
           {Connect(c, t, n % 2, FALSE, 0, v).idx :
               t \in {u \in KernelTimes : WLeq(c[n - 1].nTime, u)},
               v \in SortOutcomes(Candidates(c, n - 1))}
           : c \in KernelIndexes(n - 1)}

LoadBlockIndex ==
    /\ chain = <<>>
    /\ \E n \in 1..MaxKernelChain : \E c \in KernelIndexes(n) : chain' = c
    /\ UNCHANGED <<lastCompute, sel, kernel>>

\* the time of the previous transaction is not later than the time of the
\* block that holds it
PrevTxTimes(pBlockFrom) ==
    IF pBlockFrom = NoBlock THEN {W(0), U32Max}
    ELSE {W(0), chain[pBlockFrom].nTime}

CallCheckStakeKernelHash ==
    /\ chain # <<>>
    /\ kernel = NoCall
    /\ \E pBlockFrom \in 1..Len(chain), nTimeTx \in TxTimes, nCoins \in CoinValues,
          hashProofOfStake \in KernelHashes, now \in ClockTimes :
       \E nTimeTxPrev \in PrevTxTimes(pBlockFrom) :
         LET k == CheckStakeKernelHash(chain, pBlockFrom, nTimeTxPrev, nTimeTx,
                                       nCoins, 1, hashProofOfStake, now)
         IN  kernel' = [op |-> "CheckStakeKernelHash", env |-> "direct",
                        pBlockFrom |-> pBlockFrom, coinHeight |-> 0,
                        nTimeTxPrev |-> nTimeTxPrev, nTimeTx |-> nTimeTx,
                        nCoins |-> nCoins, hashProofOfStake |-> hashProofOfStake,
                        now |-> now, outcome |-> "returned",
                        ret |-> k.ret, dos |-> k.dos, stage |-> k.stage, k |-> k]
    /\ UNCHANGED <<chain, lastCompute, sel>>

Envs == {"not coinstake", "no tx index", "file null", "io error", "read"}

\* what a build can do after the read through a null pBlockFrom
NullDerefOutcomes ==
    {[outcome |-> "crashed", ret |-> FALSE, dos |-> 0],
     [outcome |-> "returned", ret |-> TRUE, dos |-> 0],
     [outcome |-> "returned", ret |-> FALSE, dos |-> 0],
     [outcome |-> "returned", ret |-> FALSE, dos |-> 100]}

CallCheckProofOfStake ==
    /\ chain # <<>>
    /\ kernel = NoCall
    /\ \E env \in Envs, pBlockFrom \in 0..Len(chain),
          coinHeight \in (-1)..Height(Len(chain)), nTimeTx \in TxTimes,
          nCoins \in CoinValues, hashProofOfStake \in KernelHashes,
          now \in ClockTimes, ub \in NullDerefOutcomes :
       \E nTimeTxPrev \in PrevTxTimes(pBlockFrom) :
         LET r == CheckProofOfStake(chain, Len(chain), env, pBlockFrom, coinHeight,
                                    nTimeTxPrev, nTimeTx, nCoins, 1,
                                    hashProofOfStake, now)
         IN  \* inputs the call does not read are fixed
             /\ env # "read" => pBlockFrom = NoBlock /\ coinHeight = -1
             /\ pBlockFrom # NoBlock => coinHeight \in {-1, Height(pBlockFrom)}
             /\ ~r.k.entered
                  => /\ nTimeTx = W(86399) /\ nTimeTxPrev = W(0)
                     /\ nCoins = 1 /\ hashProofOfStake = 0 /\ now = W(0)
             /\ ~r.k.nullDeref => ub.outcome = "crashed"
             /\ kernel' = [op |-> "CheckProofOfStake", env |-> env,
                           pBlockFrom |-> pBlockFrom, coinHeight |-> coinHeight,
                           nTimeTxPrev |-> nTimeTxPrev, nTimeTx |-> nTimeTx,
                           nCoins |-> nCoins,
                           hashProofOfStake |-> hashProofOfStake, now |-> now,
                           outcome |-> IF r.k.nullDeref THEN ub.outcome ELSE "returned",
                           ret |-> IF r.k.nullDeref THEN ub.ret ELSE r.ret,
                           dos |-> IF r.k.nullDeref THEN ub.dos ELSE r.dos,
                           stage |-> r.stage, k |-> r.k]
    /\ UNCHANGED <<chain, lastCompute, sel>>

NextKernel == LoadBlockIndex \/ CallCheckStakeKernelHash \/ CallCheckProofOfStake

SpecKernel == Init /\ [][NextKernel]_vars

----------------------------------------------------------------------------
(* Properties                                                              *)

\* the interval number floor(t / MODIFIER_INTERVAL) of a time t >= 0
Bucket(t) == WDiv(t, nModifierInterval)

\* the nearest block at or before i that carries GENERATED_STAKE_MODIFIER
HasGenerated(idx, i) == \E j \in 1..i : idx[j].fGenerated

NearestGenerated(idx, i) ==
    CHOOSE j \in 1..i : idx[j].fGenerated /\ \A k \in (j + 1)..i : ~idx[k].fGenerated

\* C1: for a non-nil prev whose nearest flagged block at or before it has
\* modifier M and time t_M, a successful ComputeNextStakeModifier(prev)
\* returns (M, generated = false) exactly when
\* floor(t_M / MODIFIER_INTERVAL) >= floor(prev.time / MODIFIER_INTERVAL),
\* and returns generated = true in every other case.
C1_SameIntervalIff ==
    (lastCompute.op = "compute" /\ lastCompute.pindexPrev # NoBlock /\ lastCompute.ok)
    => LET prev == lastCompute.pindexPrev
       IN  /\ HasGenerated(chain, prev)
           /\ LET g == NearestGenerated(chain, prev)
                  same == Bucket(chain[g].nTime) >= Bucket(chain[prev].nTime)
                  keeps == /\ lastCompute.nStakeModifier = chain[g].nStakeModifier
                           /\ ~lastCompute.fGeneratedStakeModifier
              IN  /\ keeps <=> same
                  /\ ~same => lastCompute.fGeneratedStakeModifier

\* C1 witness: a call on a non-nil prev found the intervals equal and kept
\* a non-zero modifier that an earlier call had generated.
C1_Witness ==
    /\ lastCompute.op = "compute"
    /\ lastCompute.pindexPrev # NoBlock
    /\ lastCompute.ok
    /\ ~lastCompute.fGeneratedStakeModifier
    /\ lastCompute.nStakeModifier # 0
    /\ chain[NearestGenerated(chain, lastCompute.pindexPrev)].nStakeModifier
         = lastCompute.nStakeModifier

\* the scenario of C6: three unselected candidates at 100, 200, 300, stop 150
C6_Scenario ==
    /\ sel.op = "select"
    /\ Len(sel.idx) = 3
    /\ sel.idx[1].nTime = W(100) /\ sel.idx[2].nTime = W(200)
    /\ sel.idx[3].nTime = W(300)
    /\ sel.mapSelectedBlocks = {}
    /\ sel.nSelectionIntervalStop = W(150)

InSeq(x, s) == \E i \in 1..Len(s) : s[i] = x

SelHashOf(i) == SelectionHash(sel.idx[i], i, sel.nStakeModifierPrev)

\* C6 as stated: in the scenario the candidate at 300 is not evaluated and
\* the candidate at 200 is evaluated, so that it wins when its selection hash
\* is smaller than that of the candidate at 100.
C6_AsStated ==
    C6_Scenario
    => /\ ~InSeq(3, sel.evaluated)
       /\ InSeq(2, sel.evaluated)
       /\ HashLess(SelHashOf(2), SelHashOf(1)) => sel.pindexSelected = 2

\* C6 amended: in the scenario only the candidate at 100 is evaluated; the
\* loop breaks at the candidate at 200 (200 > stop and a winner exists), so
\* neither 200 nor 300 is evaluated and the candidate at 100 is returned
\* whatever the selection hashes are.
C6_BreaksAtFirstLater ==
    C6_Scenario
    => /\ sel.evaluated = <<1>>
       /\ sel.ok
       /\ sel.pindexSelected = 1

\* C6 witness: the scenario, with the candidate at 200 having the smaller
\* selection hash.
C6_Witness ==
    /\ C6_Scenario
    /\ HashLess(SelHashOf(2), SelHashOf(1))
    /\ sel.pindexSelected = 1

RawHashOf(i) ==
    Hash(IF sel.idx[i].fPoS THEN sel.idx[i].hashProofOfStake ELSE i,
         sel.nStakeModifierPrev)

Position(v, h) == CHOOSE i \in 1..Len(v) : v[i][2] = h

\* an unselected proof-of-stake candidate a and an unselected proof-of-work
\* candidate b with the same raw selection hash X >= 2^32
C7_Pair(a, b) ==
    /\ a \notin sel.mapSelectedBlocks /\ b \notin sel.mapSelectedBlocks
    /\ sel.idx[a].fPoS /\ ~sel.idx[b].fPoS
    /\ RawHashOf(a) = RawHashOf(b)
    /\ RawHashOf(a)[1] >= 1

\* C7 as stated: with such a pair and no other candidate of smaller
\* selection hash, the proof-of-stake candidate is returned whatever the
\* timestamps, the order and the stop.
C7_AsStated ==
    sel.op = "select"
    => \A a, b \in 1..Len(sel.idx) :
         ( /\ C7_Pair(a, b)
           /\ \A c \in (1..Len(sel.idx)) \ {a, b} :
                ~HashLess(SelHashOf(c), SelHashOf(a)) )
         => sel.ok /\ sel.pindexSelected = a

\* the loop reaches candidate a: a is the first unselected entry of the
\* list, or its time is not later than the stop
C7_Reached(a) ==
    \/ WLeq(sel.idx[a].nTime, sel.nSelectionIntervalStop)
    \/ \A i \in 1..(Position(sel.vSortedByTimestamp, a) - 1) :
         sel.vSortedByTimestamp[i][2] \in sel.mapSelectedBlocks

\* C7 amended: with such a pair, no other unselected candidate whose
\* selection hash is smaller than or equal to X >> 32, and the
\* proof-of-stake candidate reached by the loop (it is the first unselected
\* entry of the list or its time is <= stop), the proof-of-stake candidate
\* is returned.
C7_PoSWinsWhenReached ==
    sel.op = "select"
    => \A a, b \in 1..Len(sel.idx) :
         ( /\ C7_Pair(a, b)
           /\ C7_Reached(a)
           /\ \A c \in (1..Len(sel.idx)) \ (sel.mapSelectedBlocks \cup {a, b}) :
                HashLess(SelHashOf(a), SelHashOf(c)) )
         => sel.ok /\ sel.pindexSelected = a

\* C7 witness: the proof-of-work candidate of such a pair is listed and
\* evaluated first, and the proof-of-stake candidate is returned.
C7_Witness ==
    /\ sel.op = "select"
    /\ \E a, b \in 1..Len(sel.idx) :
         /\ C7_Pair(a, b)
         /\ Position(sel.vSortedByTimestamp, b) < Position(sel.vSortedByTimestamp, a)
         /\ InSeq(b, sel.evaluated)
         /\ sel.pindexSelected = a

\* C8 as stated: the selection of ComputeNextStakeModifier, and hence the
\* modifier it returns, is the same for every arrangement of the candidates
\* with equal timestamps.
C8_OrderIndependent ==
    \A p \in 1..Len(chain) :
      \A v1, v2 \in SortOutcomes(Candidates(chain, p)) :
        ComputeNextStakeModifier(chain, p, v1).nStakeModifier
            = ComputeNextStakeModifier(chain, p, v2).nStakeModifier

SamePrevBucket(idx, i, j) == Bucket(idx[i - 1].nTime) = Bucket(idx[j - 1].nTime)

\* C10 as stated: on a chain written by ComputeNextStakeModifier, whose
\* block times need not increase, two blocks whose predecessors' times are in
\* the same MODIFIER_INTERVAL bucket carry the same stake modifier.
C10_AsStated ==
    \A i, j \in 2..Len(chain) :
      SamePrevBucket(chain, i, j) => chain[i].nStakeModifier = chain[j].nStakeModifier

\* C10 amended: on a chain written by ComputeNextStakeModifier whose block
\* times do not decrease along the chain, two blocks whose predecessors'
\* times are in the same MODIFIER_INTERVAL bucket carry the same stake
\* modifier.
C10_SameBucketSameModifier ==
    NonDecreasing(chain)
    => \A i, j \in 2..Len(chain) :
         SamePrevBucket(chain, i, j) => chain[i].nStakeModifier = chain[j].nStakeModifier

\* C10 witness: on a chain of non-decreasing times a block that generated a
\* non-zero modifier and a later block share the bucket of their
\* predecessors' times.
C10_Witness ==
    /\ NonDecreasing(chain)
    /\ \E i, j \in 2..Len(chain) :
         /\ i < j
         /\ chain[i].fGenerated
         /\ chain[i].nStakeModifier # 0
         /\ SamePrevBucket(chain, i, j)

\* the last call of ComputeNextStakeModifier went into the selection rounds:
\* pindexPrev is a block, a generated modifier was found behind it and its
\* time lies in an earlier interval than pindexPrev's
Regenerates ==
    /\ lastCompute.op = "compute"
    /\ lastCompute.pindexPrev # NoBlock
    /\ LET last == GetLastStakeModifier(chain, lastCompute.pindexPrev)
       IN  /\ last.ok
           /\ ~SameInterval(last.nModifierTime, chain[lastCompute.pindexPrev].nTime)

\* the hashes of the candidates that call collected
CandidateHashes ==
    {c[2] : c \in {Candidates(chain, lastCompute.pindexPrev)[i] :
                     i \in 1..Len(Candidates(chain, lastCompute.pindexPrev))}}

\* C11: when ComputeNextStakeModifier regenerates over n candidates (their
\* hashes are distinct and present in the block index), every one of the
\* min(64, n) selection rounds succeeds, so the call succeeds with a generated
\* modifier, and the rounds select min(64, n) pairwise distinct candidates.
C11_RoundsSelectDistinct ==
    Regenerates
    => /\ Cardinality(CandidateHashes) = Len(Candidates(chain, lastCompute.pindexPrev))
       /\ CandidateHashes \subseteq DOMAIN chain
       /\ lastCompute.ok
       /\ lastCompute.fGeneratedStakeModifier
       /\ Len(lastCompute.picks) = Min(NumRounds, Cardinality(CandidateHashes))
       /\ \A i, j \in 1..Len(lastCompute.picks) :
             i # j => lastCompute.picks[i] # lastCompute.picks[j]
       /\ \A i \in 1..Len(lastCompute.picks) :
             lastCompute.picks[i] \in CandidateHashes

\* C11 witness: a regeneration over at least three candidates, one of them
\* not later than the first round's stop, that ran three rounds.
C11_Witness ==
    /\ Regenerates
    /\ Cardinality(CandidateHashes) >= 3
    /\ Len(lastCompute.picks) >= 3
    /\ \E h \in CandidateHashes :
         WLeq(chain[h].nTime,
              WAdd(SelectionIntervalStart(chain[lastCompute.pindexPrev].nTime),
                   W(GetStakeModifierSelectionIntervalSection(0))))

\* a kernel check that entered CheckStakeKernelHash with a block_from
KernelEntered ==
    /\ kernel.op # "none"
    /\ kernel.k.entered
    /\ kernel.pBlockFrom # NoBlock

\* the time a modifier must have reached: block_from.time + S
KernelThreshold ==
    WAdd(chain[kernel.pBlockFrom].nTime, W(GetStakeModifierSelectionInterval))

\* the flagged blocks after block_from whose time is >= block_from.time + S
LaterGenerated ==
    {i \in (kernel.pBlockFrom + 1)..Len(chain) :
        chain[i].fGenerated /\ WLeq(KernelThreshold, chain[i].nTime)}

\* C2: whenever GetKernelStakeModifier succeeds, the modifier, height and
\* time it returns are those of one block: the first block after block_from
\* along the next links that carries GENERATED_STAKE_MODIFIER and whose time
\* is >= block_from.time + S; it is never block_from itself nor a block
\* without the flag.
C2_ModifierOfFirstLaterGenerated ==
    (KernelEntered /\ kernel.k.modifier.ok)
    => /\ LaterGenerated # {}
       /\ LET j == CHOOSE i \in LaterGenerated : \A l \in LaterGenerated : i <= l
              m == kernel.k.modifier
          IN  /\ m.nStakeModifier = chain[j].nStakeModifier
              /\ m.nStakeModifierHeight = Height(j)
              /\ m.nStakeModifierTime = chain[j].nTime
              /\ m.pindex = j

\* C2 witness: a successful lookup that walked over a flagged block earlier
\* than block_from.time + S and over an unflagged block not earlier than it,
\* and returned a modifier other than block_from's.
C2_Witness ==
    /\ KernelEntered
    /\ kernel.k.modifier.ok
    /\ kernel.k.modifier.nStakeModifier # chain[kernel.pBlockFrom].nStakeModifier
    /\ \E i \in (kernel.pBlockFrom + 1)..(kernel.k.modifier.pindex - 1) :
         chain[i].fGenerated /\ WLess(chain[i].nTime, KernelThreshold)
    /\ \E i \in (kernel.pBlockFrom + 1)..(kernel.k.modifier.pindex - 1) :
         ~chain[i].fGenerated /\ WLeq(KernelThreshold, chain[i].nTime)

\* C3 as stated: when the forward walk reaches the tip before a modifier at
\* least S later than block_from exists, CheckStakeKernelHash returns false
\* and neither it nor CheckProofOfStake records a DoS-100 reject.
C3_AsStated ==
    (KernelEntered /\ kernel.k.stage = "no modifier")
    => /\ ~kernel.k.ret
       /\ kernel.k.dos = 0
       /\ kernel.dos = 0

\* C4 as stated: when the block of the previous transaction is absent from
\* the block index, CheckProofOfStake ends with a DoS-100 reject and
\* CheckStakeKernelHash is not entered with a null block_from.
C4_AsStated ==
    (kernel.op = "CheckProofOfStake" /\ kernel.env = "read"
        /\ kernel.pBlockFrom = NoBlock)
    => /\ kernel.outcome = "returned"
       /\ ~kernel.ret
       /\ kernel.dos = 100
       /\ ~kernel.k.entered

\* block_from.time + STAKE_MIN_AGE > time_tx, the sum not reduced modulo 2^32
MinAgeUnmet ==
    WLess(kernel.nTimeTx, WAdd(chain[kernel.pBlockFrom].nTime, W(nStakeMinAge)))

\* C5 as stated: CheckStakeKernelHash ends with a DoS-100 reject whenever
\* time_tx < tx_prev.time or block_from.time + STAKE_MIN_AGE > time_tx (as a
\* mathematical integer); no kernel is hashed or accepted then.
C5_AsStated ==
    (KernelEntered /\ (WLess(kernel.nTimeTx, kernel.nTimeTxPrev) \/ MinAgeUnmet))
    => /\ kernel.k.dos = 100
       /\ ~kernel.k.ret
       /\ ~kernel.k.hashed

\* C9 as stated: once CheckStakeKernelHash is past its two preconditions the
\* time weight is >= 0 and the coin-day weight is the mathematical quotient,
\* not the unsigned image of a negative number.
C9_AsStated ==
    (KernelEntered
        /\ kernel.k.stage \in {"no modifier", "above target", "accepted"})
    => /\ ~WNeg(kernel.k.weight)
       /\ ~kernel.k.bnCoinDayWeight.wrapped

====
